---- MODULE Spec2Model ----
(***************************************************************************)
(* Model of scripts/github-app-get-installation-token.py and               *)
(* scripts/github-app-generate-jwt.py.                                     *)
(*                                                                         *)
(* Python strings are sequences of one-character strings, so that strip,   *)
(* startswith, endswith and split are computed character by character.     *)
(* None is the one-element sequence <<"None">>, which is no string.        *)
(***************************************************************************)
EXTENDS Integers, Sequences, FiniteSets, TLC

VARIABLES
    script,                 \* entry point that is running
    pc,                     \* position in the running entry point
    configFile,             \* secrets/config.txt: [exists, lines]
    keyFile,                \* the private key file: "missing", "invalid", "valid"
    config,                 \* __main__'s config (token script)
    gj_config,              \* generate_jwt's local config
    installation_id,        \* __main__'s installation_id
    repo_ai_full,           \* derive_required_repositories' repo_ai_full
    parent_full,            \* derive_required_repositories' parent_full
    required_repositories,  \* __main__'s required_repositories
    repository_names,       \* __main__'s repository_names
    payload,                \* generate_jwt's claim set: <<>> or <<[iss, iat, exp]>>
    clock,                  \* the value int(time.time()) returned: <<>> or <<now>>
    jwt_token,              \* the signed JWT: <<>> or <<[payload, alg]>>
    postBody,               \* the body of the POST: <<>> or <<[repositories]>>
    data,                   \* get_installation_token's data: <<>> or <<JSON value>>
    result,                 \* __main__'s result: <<>> or <<JSON value>>
    getAuth,                \* the token in the GET's Authorization header
    visible,                \* __main__'s visible: <<>> or <<JSON value>>
    stdout,                 \* what was printed to stdout, in order
    stderr,                 \* the fatal conditions reported on stderr, in order
    exitCode,               \* <<>> while running, <<code>> once terminated
    trace,                  \* the pipeline steps started, in order
    remote_url,             \* argument of a direct parse_github_full_name call
    parsed                  \* its return value: <<>> or <<string>>

vars == <<script, pc, configFile, keyFile, config, gj_config, installation_id,
          repo_ai_full, parent_full, required_repositories, repository_names,
          payload, clock, jwt_token, postBody, data, result, getAuth,
          visible, stdout, stderr, exitCode, trace, remote_url, parsed>>

(***************************************************************************)
(* Bounds                                                                  *)
(***************************************************************************)
MaxPathLen == 3      \* characters of a remote URL after its prefix
MaxLineLen == 3      \* characters of a config line before its newline
MaxLines == 2        \* lines of a config file

(***************************************************************************)
(* Python string primitives                                                *)
(***************************************************************************)
None == <<"None">>

Truthy(x) == x # None /\ x # <<>>

Whitespace == {" ", "\n"}

RECURSIVE LStrip(_)
LStrip(s) == IF s # <<>> /\ Head(s) \in Whitespace THEN LStrip(Tail(s)) ELSE s

RECURSIVE RStrip(_)
RStrip(s) ==
    IF s # <<>> /\ s[Len(s)] \in Whitespace
    THEN RStrip(SubSeq(s, 1, Len(s) - 1))
    ELSE s

\* str.strip()
Strip(s) == RStrip(LStrip(s))

\* str.startswith(p)
StartsWith(s, p) == Len(s) >= Len(p) /\ SubSeq(s, 1, Len(p)) = p

\* str.endswith(p)
EndsWith(s, p) ==
    Len(s) >= Len(p) /\ SubSeq(s, Len(s) - Len(p) + 1, Len(s)) = p

\* c in s, for a one-character c
Contains(s, c) == \E i \in 1..Len(s) : s[i] = c

\* index of the first c in s, 0 when there is none
IndexOf(s, c) ==
    IF Contains(s, c)
    THEN CHOOSE i \in 1..Len(s) : s[i] = c /\ \A j \in 1..(i - 1) : s[j] # c
    ELSE 0

\* s.split(c, 1)
SplitOnce(s, c) ==
    LET i == IndexOf(s, c)
    IN  IF i = 0 THEN <<s>>
        ELSE <<SubSeq(s, 1, i - 1), SubSeq(s, i + 1, Len(s))>>

\* s.split(c)
RECURSIVE Split(_, _)
Split(s, c) ==
    LET i == IndexOf(s, c)
    IN  IF i = 0 THEN <<s>>
        ELSE <<SubSeq(s, 1, i - 1)>> \o Split(SubSeq(s, i + 1, Len(s)), c)

\* s.split(p, 1)[1] for a string s that starts with p
AfterPrefix(s, p) == SubSeq(s, Len(p) + 1, Len(s))

Range(s) == {s[i] : i \in 1..Len(s)}

RECURSIVE SetToSeq(_)
SetToSeq(S) ==
    IF S = {} THEN <<>>
    ELSE LET x == CHOOSE y \in S : TRUE IN <<x>> \o SetToSeq(S \ {x})

IsPrefix(s, t) == Len(s) <= Len(t) /\ SubSeq(t, 1, Len(s)) = s

(***************************************************************************)
(* String constants of the scripts                                         *)
(***************************************************************************)
GIT_SSH_PREFIX == <<"g", "i", "t", "@", "g", "i", "t", "h", "u", "b", ".", "c", "o", "m", ":">>
HTTPS_PREFIX == <<"h", "t", "t", "p", "s", ":", "/", "/", "g", "i", "t", "h", "u", "b", ".", "c", "o", "m", "/">>
SSH_URL_PREFIX == <<"s", "s", "h", ":", "/", "/", "g", "i", "t", "@", "g", "i", "t", "h", "u", "b", ".", "c", "o", "m", "/">>
DOT_GIT == <<".", "g", "i", "t">>
TERRAFORM_SUFFIX == <<"/", "f", "i", "s", "h", "d", "a", "n", "-", "t", "e", "r", "r", "a", "f", "o", "r", "m">>
GITHUB_APP_ID == <<"G", "I", "T", "H", "U", "B", "_", "A", "P", "P", "_", "I", "D">>
GITHUB_INSTALLATION_ID == <<"G", "I", "T", "H", "U", "B", "_", "I", "N", "S", "T", "A", "L", "L", "A", "T", "I", "O", "N", "_", "I", "D">>

(***************************************************************************)
(* read_config                                                             *)
(***************************************************************************)
\* mutant: a key that is already present keeps its value
ConfigAssign_mut(cfg, key, value) ==
    [k \in (DOMAIN cfg) \cup {key} |-> IF k \in DOMAIN cfg THEN cfg[k] ELSE value]

\* config[key] = value
ConfigAssign(cfg, key, value) ==
    [k \in (DOMAIN cfg) \cup {key} |-> IF k = key THEN value ELSE cfg[k]]

\* the body of the loop of read_config, for one line
read_config_line(cfg, line) ==
    IF Contains(line, "=")
    THEN LET kv == SplitOnce(Strip(line), "=")
         IN  ConfigAssign(cfg, kv[1], kv[2])
    ELSE cfg

RECURSIVE read_config_lines(_, _)
read_config_lines(cfg, lines) ==
    IF lines = <<>> THEN cfg
    ELSE read_config_lines(read_config_line(cfg, Head(lines)), Tail(lines))

\* read_config() on a config file that exists
read_config(lines) == read_config_lines(<<>>, lines)

\* config.get(key)
ConfigGet(cfg, key) == IF key \in DOMAIN cfg THEN cfg[key] ELSE None

(***************************************************************************)
(* parse_github_full_name, run_command, git_remote_full_name               *)
(***************************************************************************)
\* mutant: the segments after the second are kept
parse_github_full_name_mut(url) ==
    IF url = <<>> THEN <<>>
    ELSE
    LET normalized == Strip(url)
        recognized == \/ StartsWith(normalized, GIT_SSH_PREFIX)
                      \/ StartsWith(normalized, HTTPS_PREFIX)
                      \/ StartsWith(normalized, SSH_URL_PREFIX)
        path0 == IF StartsWith(normalized, GIT_SSH_PREFIX)
                 THEN AfterPrefix(normalized, GIT_SSH_PREFIX)
                 ELSE IF StartsWith(normalized, HTTPS_PREFIX)
                 THEN AfterPrefix(normalized, HTTPS_PREFIX)
                 ELSE AfterPrefix(normalized, SSH_URL_PREFIX)
        path == IF EndsWith(path0, DOT_GIT)
                THEN SubSeq(path0, 1, Len(path0) - 4)
                ELSE path0
        parts == Split(path, "/")
    IN  IF ~recognized THEN <<>>
        ELSE IF Len(parts) < 2 THEN <<>>
        ELSE path

parse_github_full_name(url) ==
    IF url = <<>> THEN <<>>
    ELSE
    LET normalized == Strip(url)
        recognized == \/ StartsWith(normalized, GIT_SSH_PREFIX)
                      \/ StartsWith(normalized, HTTPS_PREFIX)
                      \/ StartsWith(normalized, SSH_URL_PREFIX)
        path0 == IF StartsWith(normalized, GIT_SSH_PREFIX)
                 THEN AfterPrefix(normalized, GIT_SSH_PREFIX)
                 ELSE IF StartsWith(normalized, HTTPS_PREFIX)
                 THEN AfterPrefix(normalized, HTTPS_PREFIX)
                 ELSE AfterPrefix(normalized, SSH_URL_PREFIX)
        path == IF EndsWith(path0, DOT_GIT)
                THEN SubSeq(path0, 1, Len(path0) - 4)
                ELSE path0
        parts == Split(path, "/")
    IN  IF ~recognized THEN <<>>
        ELSE IF Len(parts) < 2 THEN <<>>
        ELSE parts[1] \o <<"/">> \o parts[2]

\* run_command: the stripped stdout, or "" when the command failed
run_command(proc) == IF proc.returncode # 0 THEN <<>> ELSE Strip(proc.stdout)

git_remote_full_name(proc) == parse_github_full_name(run_command(proc))

(***************************************************************************)
(* derive_required_repositories, after the two remotes were read           *)
(***************************************************************************)
\* mutant: this repository's owner is preferred to the parent's
derive_owner_mut(repo_ai, parent) ==
    IF repo_ai # <<>> /\ Contains(repo_ai, "/") THEN SplitOnce(repo_ai, "/")[1]
    ELSE IF parent # <<>> /\ Contains(parent, "/") THEN SplitOnce(parent, "/")[1]
    ELSE <<>>

derive_owner(repo_ai, parent) ==
    IF parent # <<>> /\ Contains(parent, "/") THEN SplitOnce(parent, "/")[1]
    ELSE IF repo_ai # <<>> /\ Contains(repo_ai, "/") THEN SplitOnce(repo_ai, "/")[1]
    ELSE <<>>

\* mutant: empty entries are dropped, repetitions are kept
RECURSIVE dedupe_mut(_, _)
dedupe_mut(required, deduped) ==
    IF required = <<>> THEN deduped
    ELSE LET repo == Head(required)
         IN  IF repo # <<>>
             THEN dedupe_mut(Tail(required), Append(deduped, repo))
             ELSE dedupe_mut(Tail(required), deduped)

RECURSIVE dedupe(_, _)
dedupe(required, deduped) ==
    IF required = <<>> THEN deduped
    ELSE LET repo == Head(required)
         IN  IF repo # <<>> /\ repo \notin Range(deduped)
             THEN dedupe(Tail(required), Append(deduped, repo))
             ELSE dedupe(Tail(required), deduped)

terraform_full(owner) == owner \o TERRAFORM_SUFFIX

required_list(repo_ai, parent) ==
    dedupe(<<repo_ai, terraform_full(derive_owner(repo_ai, parent)), parent>>, <<>>)

(***************************************************************************)
(* generate_jwt's claim set                                                *)
(***************************************************************************)
\* mutant: iat is not backdated
make_payload_mut(app_id, now) ==
    [iss |-> app_id, iat |-> now, exp |-> now + 600]

make_payload(app_id, now) ==
    [iss |-> app_id, iat |-> now - 60, exp |-> now + 600]

\* jwt.encode(payload, private_key, algorithm='RS256')
jwt_encode(p) == [payload |-> p, algorithm |-> "RS256"]

(***************************************************************************)
(* JSON values returned by json.loads: [type |-> "object", members |-> f], *)
(* [type |-> "array", items |-> seq], [type |-> "null"]; a body that does  *)
(* not parse is [type |-> "malformed"].                                    *)
(***************************************************************************)
JsonObject(m) == [type |-> "object", members |-> m]
JsonArray(a) == [type |-> "array", items |-> a]
JsonNull == [type |-> "null"]
Malformed == [type |-> "malformed"]

\* "token" in data, for a dict or a list
has_token(json) ==
    IF json.type = "object" THEN "token" \in DOMAIN json.members
    ELSE "token" \in Range(json.items)

\* d.get(key, default) on a dict
JsonGet(json, key, default) ==
    IF key \in DOMAIN json.members THEN json.members[key] ELSE default

\* {repo.get("full_name", "") for repo in visible.get("repositories", [])}
visible_full_names(body) ==
    {JsonGet(repo, "full_name", <<>>) :
        repo \in Range(JsonGet(body, "repositories", <<>>))}

\* mutant: the membership test inverted
missing_repositories_mut(required, names) ==
    LET present(repo) == repo \in names
    IN  SelectSeq(required, present)

\* [repo for repo in required_repositories if repo not in visible_full_names]
missing_repositories(required, names) ==
    LET absent(repo) == repo \notin names
    IN  SelectSeq(required, absent)

\* mutant: a fixed token instead of the one just received
auth_token_mut(res) == "ghs_A"

\* result["token"], the argument of list_installation_repositories
auth_token(res) == res.members["token"]

\* [repo.split("/", 1)[1] for repo in required_repositories]
short_names(required) ==
    [i \in 1..Len(required) |-> SplitOnce(required[i], "/")[2]]

(***************************************************************************)
(* Inputs                                                                  *)
(***************************************************************************)
Strings(alphabet, n) == UNION {[1..k -> alphabet] : k \in 0..n}

GITLAB_PREFIX == <<"h", "t", "t", "p", "s", ":", "/", "/", "g", "i", "t", "l", "a", "b", ".", "c", "o", "m", "/">>
UrlPrefixes == {GIT_SSH_PREFIX, HTTPS_PREFIX, SSH_URL_PREFIX, GITLAB_PREFIX}
UrlPaths == Strings({"a", "b", "/"}, MaxPathLen)

\* what git config --get remote.origin.url prints, and a failing invocation
RemoteUrls == {p \o path \o sfx :
                  p \in UrlPrefixes, path \in UrlPaths, sfx \in {<<>>, DOT_GIT}}
GitResults ==
    {[returncode |-> 1, stdout |-> <<>>]}
    \cup {[returncode |-> 0, stdout |-> u \o <<"\n">>] : u \in RemoteUrls}

\* arguments of a direct call of parse_github_full_name
ParseInputs ==
    {lead \o p \o path \o sfx \o trail :
        lead \in {<<>>, <<" ">>}, p \in UrlPrefixes \cup {<<>>},
        path \in UrlPaths, sfx \in {<<>>, DOT_GIT, DOT_GIT \o DOT_GIT},
        trail \in {<<>>, <<"\n">>}}

\* config files of a direct call of read_config
ConfigLines == {body \o <<"\n">> : body \in Strings({"k", "=", " "}, MaxLineLen)}
ConfigFiles ==
    {[exists |-> FALSE, lines |-> <<>>]}
    \cup {[exists |-> TRUE, lines |-> l] :
            l \in UNION {[1..n -> ConfigLines] : n \in 0..MaxLines}}

\* config files of a run of a script
AppIdLines ==
    {<<>>,
     <<GITHUB_APP_ID \o <<"=", "1", "2", "\n">>>>,
     <<GITHUB_APP_ID \o <<"=", "\n">>>>}
InstallationIdLines ==
    {<<>>,
     <<GITHUB_INSTALLATION_ID \o <<"=", "7", "\n">>>>,
     <<GITHUB_INSTALLATION_ID \o <<"=", "\n">>>>}
RunConfigFiles ==
    {[exists |-> FALSE, lines |-> <<>>]}
    \cup {[exists |-> TRUE, lines |-> <<<<"#", "\n">>>> \o a \o i] :
            a \in AppIdLines, i \in InstallationIdLines}

KeyFiles == {"missing", "invalid", "valid"}

\* values of int(time.time())
Clock == {0, 59, 1765500000}

Tokens == {"ghs_A", "ghs_B"}
Expiry == "2025-01-01T00:00:00Z"

\* responses of POST /app/installations/{id}/access_tokens
PostBodies ==
    {Malformed, JsonNull, JsonArray(<<>>), JsonArray(<<"token">>)}
    \cup {JsonObject([k \in S |-> IF k = "token" THEN t ELSE Expiry]) :
            S \in SUBSET {"token", "expires_at"}, t \in Tokens}
PostResponses ==
    {[returncode |-> 1, body |-> Malformed]}
    \cup {[returncode |-> 0, body |-> b] : b \in PostBodies}

\* responses of GET /installation/repositories; only membership of the
\* required repositories in the response matters, so the visible names are
\* drawn from the required ones and one other repository
OtherRepo == <<"z", "/", "z">>
RepoItem(name) == JsonObject([k \in {"full_name"} |-> name])
GetBodies(required) ==
    {Malformed, JsonArray(<<>>), JsonObject(<<>>),
     JsonObject([k \in {"repositories"} |-> <<JsonNull>>]),
     JsonObject([k \in {"repositories"} |-> <<JsonObject(<<>>)>>])}
    \cup {JsonObject([k \in {"repositories", "total_count"} |->
                        IF k = "total_count" THEN Cardinality(V)
                        ELSE SetToSeq({RepoItem(n) : n \in V})]) :
            V \in SUBSET (Range(required) \cup {OtherRepo})}
GetResponses(required) ==
    {[returncode |-> 1, body |-> Malformed]}
    \cup {[returncode |-> 0, body |-> b] : b \in GetBodies(required)}

(***************************************************************************)
(* Initial states                                                          *)
(***************************************************************************)
InitLocals ==
    /\ config = <<>>
    /\ gj_config = <<>>
    /\ installation_id = None
    /\ repo_ai_full = <<>>
    /\ parent_full = <<>>
    /\ required_repositories = <<>>
    /\ repository_names = <<>>
    /\ payload = <<>>
    /\ clock = <<>>
    /\ jwt_token = <<>>
    /\ postBody = <<>>
    /\ data = <<>>
    /\ result = <<>>
    /\ getAuth = <<>>
    /\ visible = <<>>
    /\ stdout = <<>>
    /\ stderr = <<>>
    /\ exitCode = <<>>
    /\ trace = <<>>
    /\ parsed = <<>>

\* a run of one of the two scripts
Init ==
    /\ script \in {"token", "jwt"}
    /\ pc = IF script = "token" THEN "main" ELSE "generate_jwt"
    /\ configFile \in RunConfigFiles
    /\ keyFile \in KeyFiles
    /\ remote_url = <<>>
    /\ InitLocals

\* a direct call of parse_github_full_name
InitParse ==
    /\ script = "parse_github_full_name"
    /\ pc = "call"
    /\ configFile = [exists |-> FALSE, lines |-> <<>>]
    /\ keyFile = "missing"
    /\ remote_url \in ParseInputs
    /\ InitLocals

\* two direct calls of read_config
InitConfig ==
    /\ script = "read_config"
    /\ pc = "call"
    /\ configFile \in ConfigFiles
    /\ keyFile = "missing"
    /\ remote_url = <<>>
    /\ InitLocals

(***************************************************************************)
(* Termination                                                             *)
(***************************************************************************)
Report(kind, names) == [kind |-> kind, names |-> names]

\* mutant: the diagnostic is printed but the exit status is 0
Fatal_mut(kind, names) ==
    /\ stderr' = Append(stderr, Report(kind, names))
    /\ exitCode' = <<0>>
    /\ pc' = "exited"

\* print(..., file=sys.stderr); sys.exit(1)
Fatal(kind, names) ==
    /\ stderr' = Append(stderr, Report(kind, names))
    /\ exitCode' = <<1>>
    /\ pc' = "exited"

Continue(next) ==
    /\ pc' = next
    /\ UNCHANGED <<stderr, exitCode>>

(***************************************************************************)
(* The installation-token script                                           *)
(***************************************************************************)
\* __main__: config = read_config(); the check of GITHUB_INSTALLATION_ID
MainReadConfig ==
    /\ script = "token" /\ pc = "main"
    /\ trace' = Append(trace, "load_config")
    /\ IF ~configFile.exists
       THEN /\ Fatal("ConfigNotFound", <<>>)
            /\ UNCHANGED <<config, installation_id>>
       ELSE LET cfg == read_config(configFile.lines)
                id == ConfigGet(cfg, GITHUB_INSTALLATION_ID)
            IN  /\ config' = cfg
                /\ installation_id' = id
                /\ IF ~Truthy(id)
                   THEN Fatal("MissingInstallationID", <<>>)
                   ELSE Continue("git_remote_this")
    /\ UNCHANGED <<script, configFile, keyFile, gj_config, repo_ai_full,
                   parent_full, required_repositories, repository_names,
                   payload, clock, jwt_token, postBody, result, getAuth,
                   visible, stdout, remote_url, parsed,
                   data>>

\* derive_required_repositories: repo_ai_full = git_remote_full_name(PROJECT_ROOT)
GitRemoteThis ==
    /\ script = "token" /\ pc = "git_remote_this"
    /\ \E proc \in GitResults : repo_ai_full' = git_remote_full_name(proc)
    /\ trace' = Append(trace, "derive")
    /\ Continue("git_remote_parent")
    /\ UNCHANGED <<script, configFile, keyFile, config, gj_config,
                   installation_id, parent_full, required_repositories,
                   repository_names, payload, clock, jwt_token, postBody,
                   result, getAuth, visible, stdout, remote_url, parsed,
                   data>>

\* derive_required_repositories: parent_full = git_remote_full_name(PROJECT_ROOT.parent)
GitRemoteParent ==
    /\ script = "token" /\ pc = "git_remote_parent"
    /\ \E proc \in GitResults : parent_full' = git_remote_full_name(proc)
    /\ Continue("derive")
    /\ UNCHANGED <<script, configFile, keyFile, config, gj_config,
                   installation_id, repo_ai_full, required_repositories,
                   repository_names, payload, clock, jwt_token, postBody,
                   result, getAuth, visible, stdout, trace, remote_url,
                   parsed,
                   data>>

\* the rest of derive_required_repositories, and __main__'s repository_names
DeriveRequired ==
    /\ script = "token" /\ pc = "derive"
    /\ IF derive_owner(repo_ai_full, parent_full) = <<>>
       THEN /\ Fatal("OwnerUndetermined", <<>>)
            /\ UNCHANGED <<required_repositories, repository_names>>
       ELSE LET required == required_list(repo_ai_full, parent_full)
            IN  /\ required_repositories' = required
                /\ IF \A i \in 1..Len(required) : Contains(required[i], "/")
                   THEN /\ repository_names' = short_names(required)
                        /\ Continue("generate_jwt")
                   ELSE \* IndexError, caught by __main__'s except Exception
                        /\ Fatal("Exception", <<>>)
                        /\ UNCHANGED repository_names
    /\ UNCHANGED <<script, configFile, keyFile, config, gj_config,
                   installation_id, repo_ai_full, parent_full, payload, clock,
                   jwt_token, postBody, result, getAuth, visible, stdout,
                   trace, remote_url, parsed,
                   data>>

(***************************************************************************)
(* generate_jwt, the same function in both scripts                         *)
(***************************************************************************)
generate_jwt(next) ==
    IF ~configFile.exists
    THEN /\ trace' = Append(trace, "load_config")
         /\ Fatal("ConfigNotFound", <<>>)
         /\ UNCHANGED <<gj_config, clock, payload, jwt_token>>
    ELSE
    LET cfg == read_config(configFile.lines)
        app_id == ConfigGet(cfg, GITHUB_APP_ID)
    IN  /\ gj_config' = cfg
        /\ IF ~Truthy(app_id)
           THEN /\ trace' = Append(trace, "load_config")
                /\ Fatal("MissingAppID", <<>>)
                /\ UNCHANGED <<clock, payload, jwt_token>>
           ELSE IF keyFile = "missing"
           THEN /\ trace' = trace \o <<"load_config", "load_key">>
                /\ Fatal("PrivateKeyNotFound", <<>>)
                /\ UNCHANGED <<clock, payload, jwt_token>>
           ELSE \E now \in Clock :
                /\ trace' = trace \o <<"load_config", "load_key", "issue_jwt">>
                /\ clock' = <<now>>
                /\ payload' = <<make_payload(app_id, now)>>
                /\ IF keyFile = "invalid"
                   THEN \* jwt.encode raises, caught by except Exception
                        /\ Fatal("Exception", <<>>)
                        /\ UNCHANGED jwt_token
                   ELSE /\ jwt_token' = <<jwt_encode(make_payload(app_id, now))>>
                        /\ Continue(next)

\* __main__ of the token script: jwt_token = generate_jwt()
TokenGenerateJwt ==
    /\ script = "token" /\ pc = "generate_jwt"
    /\ generate_jwt("post")
    /\ UNCHANGED <<script, configFile, keyFile, config, installation_id,
                   repo_ai_full, parent_full, required_repositories,
                   repository_names, postBody, result, getAuth, visible,
                   stdout, remote_url, parsed,
                   data>>

\* get_installation_token
PostInstallationToken ==
    /\ script = "token" /\ pc = "post"
    /\ trace' = Append(trace, "post")
    /\ postBody' = <<[repositories |-> repository_names]>>
    /\ \E resp \in PostResponses :
        IF resp.returncode # 0
        THEN Fatal("TransportError", <<>>) /\ UNCHANGED <<data, result>>
        ELSE IF resp.body.type = "malformed"
        THEN Fatal("MalformedResponse", <<>>) /\ UNCHANGED <<data, result>>
        ELSE
        /\ data' = <<resp.body>>
        /\ IF resp.body.type \notin {"object", "array"}
           THEN \* TypeError, caught by __main__'s except Exception
                Fatal("Exception", <<>>) /\ UNCHANGED result
           ELSE IF ~has_token(resp.body)
           THEN Fatal("NoTokenInResponse", <<>>) /\ UNCHANGED result
           ELSE result' = <<resp.body>> /\ Continue("get")
    /\ UNCHANGED <<script, configFile, keyFile, config, gj_config,
                   installation_id, repo_ai_full, parent_full,
                   required_repositories, repository_names, payload, clock,
                   jwt_token, getAuth, visible, stdout, remote_url, parsed>>

\* __main__: list_installation_repositories(result["token"]) and the check
\* of the required repositories against the visible ones
ValidateVisibility ==
    /\ script = "token" /\ pc = "get"
    /\ IF result[1].type # "object" \/ "token" \notin DOMAIN result[1].members
       THEN \* result["token"] raises TypeError or KeyError
            /\ Fatal("Exception", <<>>)
            /\ UNCHANGED <<getAuth, visible, trace>>
       ELSE
       /\ trace' = Append(trace, "get")
       /\ getAuth' = <<auth_token(result[1])>>
       /\ \E resp \in GetResponses(required_repositories) :
           IF resp.returncode # 0
           THEN Fatal("TransportError", <<>>) /\ UNCHANGED visible
           ELSE IF resp.body.type = "malformed"
           THEN Fatal("MalformedResponse", <<>>) /\ UNCHANGED visible
           ELSE
           /\ visible' = <<resp.body>>
           /\ IF resp.body.type # "object"
              THEN \* visible.get raises AttributeError
                   Fatal("Exception", <<>>)
              ELSE IF \E repo \in Range(JsonGet(resp.body, "repositories", <<>>)) :
                         repo.type # "object"
              THEN \* repo.get raises AttributeError
                   Fatal("Exception", <<>>)
              ELSE LET missing == missing_repositories(required_repositories,
                                      visible_full_names(resp.body))
                   IN  IF missing # <<>>
                       THEN Fatal("MissingRequiredRepositories", missing)
                       ELSE Continue("emit")
    /\ UNCHANGED <<script, configFile, keyFile, config, gj_config,
                   installation_id, repo_ai_full, parent_full,
                   required_repositories, repository_names, payload, clock,
                   jwt_token, postBody, result, stdout, remote_url, parsed,
                   data>>

\* __main__: print(json.dumps(output)), then the script ends
EmitResult ==
    /\ script = "token" /\ pc = "emit"
    /\ trace' = Append(trace, "emit")
    /\ stdout' = Append(stdout,
          [token |-> result[1].members["token"],
           expires_at |-> JsonGet(result[1], "expires_at", ""),
           required_repositories |-> required_repositories,
           validated_repository_count |-> JsonGet(visible[1], "total_count", 0)])
    /\ exitCode' = <<0>>
    /\ pc' = "exited"
    /\ UNCHANGED <<script, configFile, keyFile, config, gj_config,
                   installation_id, repo_ai_full, parent_full,
                   required_repositories, repository_names, payload, clock,
                   jwt_token, postBody, result, getAuth, visible, stderr,
                   remote_url, parsed,
                   data>>

(***************************************************************************)
(* The JWT script                                                          *)
(***************************************************************************)
\* __main__: jwt_token = generate_jwt()
JwtGenerateJwt ==
    /\ script = "jwt" /\ pc = "generate_jwt"
    /\ generate_jwt("emit_jwt")
    /\ UNCHANGED <<script, configFile, keyFile, config, installation_id,
                   repo_ai_full, parent_full, required_repositories,
                   repository_names, postBody, result, getAuth, visible,
                   stdout, remote_url, parsed,
                   data>>

\* __main__: print(jwt_token), then the script ends
EmitJwt ==
    /\ script = "jwt" /\ pc = "emit_jwt"
    /\ trace' = Append(trace, "emit")
    /\ stdout' = Append(stdout, jwt_token[1])
    /\ exitCode' = <<0>>
    /\ pc' = "exited"
    /\ UNCHANGED <<script, configFile, keyFile, config, gj_config,
                   installation_id, repo_ai_full, parent_full,
                   required_repositories, repository_names, payload, clock,
                   jwt_token, postBody, result, getAuth, visible, stderr,
                   remote_url, parsed,
                   data>>

Next ==
    \/ MainReadConfig
    \/ GitRemoteThis
    \/ GitRemoteParent
    \/ DeriveRequired
    \/ TokenGenerateJwt
    \/ PostInstallationToken
    \/ ValidateVisibility
    \/ EmitResult
    \/ JwtGenerateJwt
    \/ EmitJwt

Spec == Init /\ [][Next]_vars

(***************************************************************************)
(* Direct calls of the two pure functions                                  *)
(***************************************************************************)
ParseCall ==
    /\ script = "parse_github_full_name" /\ pc = "call"
    /\ parsed' = <<parse_github_full_name(remote_url)>>
    /\ pc' = "returned"
    /\ UNCHANGED <<script, configFile, keyFile, config, gj_config,
                   installation_id, repo_ai_full, parent_full,
                   required_repositories, repository_names, payload, clock,
                   jwt_token, postBody, result, getAuth, visible, stdout,
                   stderr, exitCode, trace, remote_url,
                   data>>

NextParse == ParseCall

SpecParse == InitParse /\ [][NextParse]_vars

\* the first call of read_config
ReadConfigCall ==
    /\ script = "read_config" /\ pc = "call"
    /\ IF ~configFile.exists
       THEN Fatal("ConfigNotFound", <<>>) /\ UNCHANGED config
       ELSE config' = read_config(configFile.lines) /\ Continue("call_again")
    /\ UNCHANGED <<script, configFile, keyFile, gj_config, installation_id,
                   repo_ai_full, parent_full, required_repositories,
                   repository_names, payload, clock, jwt_token, postBody,
                   result, getAuth, visible, stdout, trace, remote_url,
                   parsed,
                   data>>

\* the second call of read_config, on the same file
ReadConfigAgain ==
    /\ script = "read_config" /\ pc = "call_again"
    /\ gj_config' = read_config(configFile.lines)
    /\ pc' = "returned"
    /\ UNCHANGED <<script, configFile, keyFile, config, installation_id,
                   repo_ai_full, parent_full, required_repositories,
                   repository_names, payload, clock, jwt_token, postBody,
                   result, getAuth, visible, stdout, stderr, exitCode, trace,
                   remote_url, parsed,
                   data>>

NextConfig == ReadConfigCall \/ ReadConfigAgain

SpecConfig == InitConfig /\ [][NextConfig]_vars

(***************************************************************************)
(* Properties                                                              *)
(***************************************************************************)
Last(s) == s[Len(s)]

\* the segment of a full name before its first "/"
OwnerOf(full) == SplitOnce(full, "/")[1]

\* the part of a full name after its first "/"
NameOf(full) == SubSeq(full, IndexOf(full, "/") + 1, Len(full))

HasOwner(full) == Contains(full, "/") /\ OwnerOf(full) # <<>>

Reported(kind) == \E i \in 1..Len(stderr) : stderr[i].kind = kind

\* the GET was answered by a JSON object whose repositories are objects
VisibleNamesDefined ==
    /\ visible # <<>>
    /\ visible[1].type = "object"
    /\ \A repo \in Range(JsonGet(visible[1], "repositories", <<>>)) :
          repo.type = "object"

\* the full names the GET response carries
VisibleNames ==
    {IF "full_name" \in DOMAIN repo.members THEN repo.members["full_name"] ELSE <<>> :
        repo \in Range(JsonGet(visible[1], "repositories", <<>>))}

\* C1: when a required repository is not among the visible full names, the
\* run ends with exit code 1 and a MissingRequiredRepositories error that
\* names exactly the required repositories that are not visible, in order,
\* and stdout is empty; when the result is on stdout, every entry of its
\* required_repositories is visible.
C1_MissingIsFatal ==
    /\ VisibleNamesDefined =>
          LET R == required_repositories
              absent == {i \in 1..Len(R) : R[i] \notin VisibleNames}
          IN  absent # {} =>
                /\ pc = "exited"
                /\ exitCode = <<1>>
                /\ stdout = <<>>
                /\ Len(stderr) = 1
                /\ stderr[1].kind = "MissingRequiredRepositories"
                /\ Len(stderr[1].names) = Cardinality(absent)
                /\ \A i \in absent : R[i] \in Range(stderr[1].names)
                /\ \A n \in Range(stderr[1].names) :
                      n \in Range(R) /\ n \notin VisibleNames
    /\ (script = "token" /\ stdout # <<>>) =>
          /\ VisibleNamesDefined
          /\ stdout[1].required_repositories = required_repositories
          /\ \A n \in Range(stdout[1].required_repositories) : n \in VisibleNames

\* C1 witness: some required repositories are visible and some are not
C1_Witness ==
    /\ VisibleNamesDefined
    /\ Reported("MissingRequiredRepositories")
    /\ Len(stderr[1].names) >= 1
    /\ Len(stderr[1].names) < Len(required_repositories)

FatalKinds ==
    {"ConfigNotFound", "PrivateKeyNotFound", "MissingAppID",
     "MissingInstallationID", "OwnerUndetermined", "TransportError",
     "MalformedResponse", "NoTokenInResponse", "MissingRequiredRepositories",
     "Exception"}

\* C2: stdout is written at most once and only after every step succeeded;
\* a run that reports a fatal condition has exit code 1 and an empty stdout,
\* in particular when the token exchange answers a JSON object without a
\* token key; a run that writes to stdout has exit code 0.
C2_NoPartialOutput ==
    /\ Len(stdout) <= 1
    /\ \A i \in 1..Len(stderr) : stderr[i].kind \in FatalKinds
    /\ stderr # <<>> => pc = "exited" /\ exitCode = <<1>> /\ stdout = <<>>
    /\ stdout # <<>> =>
          /\ pc = "exited" /\ exitCode = <<0>> /\ stderr = <<>>
          /\ jwt_token # <<>>
          /\ script = "token" =>
                /\ installation_id \notin {None, <<>>}
                /\ required_repositories # <<>>
                /\ result # <<>> /\ "token" \in DOMAIN result[1].members
                /\ visible # <<>>
    /\ pc = "exited" => exitCode \in {<<0>>, <<1>>}
    /\ exitCode # <<>> => pc = "exited"
    /\ (data # <<>> /\ data[1].type = "object"
            /\ "token" \notin DOMAIN data[1].members) =>
          /\ Reported("NoTokenInResponse")
          /\ exitCode = <<1>>
          /\ stdout = <<>>

\* C2 witness: the token exchange answered {"expires_at": ...} and the run
\* has ended
C2_Witness ==
    /\ data # <<>>
    /\ data[1].type = "object"
    /\ DOMAIN data[1].members = {"expires_at"}
    /\ pc = "exited"

\* C3: when this repository's identity or the parent's has a non-empty
\* owner, derive_required_repositories does not fail with OwnerUndetermined,
\* and the owner of the terraform entry of a list it returns is not empty.
C3_OwnerFallback ==
    /\ (HasOwner(repo_ai_full) \/ HasOwner(parent_full)) =>
          ~Reported("OwnerUndetermined")
    /\ \A i \in 1..Len(required_repositories) :
          EndsWith(required_repositories[i], TERRAFORM_SUFFIX) =>
              OwnerOf(required_repositories[i]) # <<>>

\* a remote identity of the form owner/name, neither part empty
WellFormed(full) == HasOwner(full) /\ NameOf(full) # <<>>

\* C4 as stated: all entries of the returned list have the same owner; here
\* for remote identities that are empty or of the form owner/name.
C4_SameOwner ==
    (\A full \in {repo_ai_full, parent_full} : full = <<>> \/ WellFormed(full)) =>
        \A i, j \in 1..Len(required_repositories) :
            OwnerOf(required_repositories[i]) = OwnerOf(required_repositories[j])

\* C4 as amended: every entry of the returned list other than this
\* repository's own identity has the owner of the parent's identity, or of
\* this repository's identity when the parent has none; so all entries have
\* the same owner when this repository's identity is empty or has that owner.
C4_SameOwnerButThisRepo ==
    required_repositories # <<>> =>
        LET R == required_repositories
            o == IF parent_full # <<>> THEN OwnerOf(parent_full)
                 ELSE OwnerOf(repo_ai_full)
        IN  /\ o # <<>>
            /\ \A i \in 1..Len(R) : R[i] # repo_ai_full => OwnerOf(R[i]) = o
            /\ (repo_ai_full = <<>> \/ OwnerOf(repo_ai_full) = o) =>
                  \A i \in 1..Len(R) : OwnerOf(R[i]) = o

\* C4 witness: three entries, this repository and its parent under
\* different owners
C4_Witness ==
    /\ Len(required_repositories) = 3
    /\ repo_ai_full # <<>> /\ parent_full # <<>>
    /\ OwnerOf(repo_ai_full) # OwnerOf(parent_full)

FirstIndex(s, x) ==
    CHOOSE i \in 1..Len(s) : s[i] = x /\ \A j \in 1..(i - 1) : s[j] # x

\* C5: the returned list is [this-repo identity, <owner>/fishdan-terraform,
\* parent identity] without its empty entries and without later repetitions:
\* no empty string, no duplicate, first-occurrence order, the terraform
\* entry always present, between 1 and 3 entries.
C5_DerivedList ==
    required_repositories # <<>> =>
        LET R == required_repositories
            o == IF parent_full # <<>> THEN OwnerOf(parent_full)
                 ELSE OwnerOf(repo_ai_full)
            raw == <<repo_ai_full, o \o TERRAFORM_SUFFIX, parent_full>>
        IN  /\ Len(R) \in 1..3
            /\ \A i \in 1..Len(R) : R[i] # <<>>
            /\ \A i, j \in 1..Len(R) : i # j => R[i] # R[j]
            /\ Range(R) = Range(raw) \ {<<>>}
            /\ (o \o TERRAFORM_SUFFIX) \in Range(R)
            /\ \A i, j \in 1..Len(R) :
                  i < j => FirstIndex(raw, R[i]) < FirstIndex(raw, R[j])

\* C5 witness: this repository and its parent have the same identity, which
\* is listed once
C5_Witness ==
    /\ Len(required_repositories) = 2
    /\ repo_ai_full # <<>>
    /\ repo_ai_full = parent_full

\* the full name that C6 describes for a URL: the recognized prefix removed,
\* one trailing .git removed, and what precedes the second "/" kept
DescribedFullName(url) ==
    LET prefixes == <<GIT_SSH_PREFIX, HTTPS_PREFIX, SSH_URL_PREFIX>>
        matching == {i \in 1..3 : StartsWith(url, prefixes[i])}
    IN  IF matching = {} THEN <<>>
        ELSE
        LET first == CHOOSE i \in matching : \A j \in matching : i <= j
            rest0 == SubSeq(url, Len(prefixes[first]) + 1, Len(url))
            rest == IF EndsWith(rest0, DOT_GIT)
                    THEN SubSeq(rest0, 1, Len(rest0) - Len(DOT_GIT))
                    ELSE rest0
            slashes == {i \in 1..Len(rest) : rest[i] = "/"}
        IN  IF slashes = {} THEN <<>>
            ELSE
            LET s1 == CHOOSE i \in slashes : \A j \in slashes : i <= j
                later == slashes \ {s1}
                end == IF later = {} THEN Len(rest)
                       ELSE (CHOOSE i \in later : \A j \in later : i <= j) - 1
            IN  SubSeq(rest, 1, end)

\* C6 as stated: parse_github_full_name returns, for every URL string, what
\* the prefix rule, the .git rule and the two-segment rule give for that
\* string.
C6_ParseAsDescribed ==
    parsed # <<>> => parsed[1] = DescribedFullName(remote_url)

\* C6 as amended: parse_github_full_name returns what the prefix rule, the
\* .git rule and the two-segment rule give for the URL trimmed of its
\* leading and trailing whitespace.
C6_ParseOfTrimmed ==
    parsed # <<>> => parsed[1] = DescribedFullName(Strip(remote_url))

\* C6 witness: a URL with surrounding whitespace and a .git suffix was parsed
\* to a full name
C6_Witness ==
    /\ parsed # <<>>
    /\ parsed[1] # <<>>
    /\ Strip(remote_url) # remote_url
    /\ EndsWith(Strip(remote_url), DOT_GIT)

\* the mapping a rule for keys and a rule for values gives for the lines of a
\* file: the lines with "=" only, the last line of a key deciding its value
KeyPart(line) == SubSeq(line, 1, IndexOf(line, "=") - 1)
ValuePart(line) == SubSeq(line, IndexOf(line, "=") + 1, Len(line))
Assignments(lines) == {i \in 1..Len(lines) : Contains(lines[i], "=")}

\* C7 as stated: the key is the part of the line before the first "=", the
\* value is the part after it trimmed of leading and trailing whitespace,
\* lines without "=" are ignored, the last occurrence of a key wins, and
\* loading the same file twice gives the same mapping.
C7_ConfigAsDescribed ==
    (script = "read_config" /\ pc \in {"call_again", "returned"}) =>
        LET lines == configFile.lines
            A == Assignments(lines)
        IN  /\ DOMAIN config = {KeyPart(lines[i]) : i \in A}
            /\ \A i \in A :
                  (\A j \in A : j > i => KeyPart(lines[j]) # KeyPart(lines[i]))
                      => config[KeyPart(lines[i])] = Strip(ValuePart(lines[i]))
            /\ pc = "returned" => gj_config = config

\* C7 as amended: the line is trimmed of surrounding whitespace before it is
\* split, so the key is the part before the first "=" without its leading
\* whitespace and the value is the part after it without its trailing
\* whitespace; whitespace next to the "=" is kept on both sides. Lines
\* without "=" are ignored, the last occurrence of a key wins, and loading
\* the same file twice gives the same mapping.
C7_ConfigOfTrimmedLine ==
    (script = "read_config" /\ pc \in {"call_again", "returned"}) =>
        LET lines == configFile.lines
            A == Assignments(lines)
        IN  /\ DOMAIN config = {LStrip(KeyPart(lines[i])) : i \in A}
            /\ \A i \in A :
                  (\A j \in A : j > i =>
                        LStrip(KeyPart(lines[j])) # LStrip(KeyPart(lines[i])))
                      => config[LStrip(KeyPart(lines[i]))] = RStrip(ValuePart(lines[i]))
            /\ pc = "returned" => gj_config = config

\* C7 witness: two lines assign the same key, the second with a value that
\* starts with whitespace, and both loads are done
C7_Witness ==
    /\ script = "read_config" /\ pc = "returned"
    /\ Len(configFile.lines) = 2
    /\ Cardinality(DOMAIN config) = 1
    /\ \E k \in DOMAIN config :
          /\ Len(config[k]) >= 2
          /\ config[k][1] = " "
          /\ config[k] # RStrip(ValuePart(configFile.lines[1]))

\* the order of the steps as C8 states it
StatedOrder ==
    <<"load_config", "load_key", "issue_jwt", "derive", "post", "get", "emit">>

\* the order of the steps in __main__ and generate_jwt
CodeOrder ==
    <<"load_config", "derive", "load_config", "load_key", "issue_jwt",
      "post", "get", "emit">>

\* the steps in which a fatal condition is detected
StepsOf(kind) ==
    CASE kind = "ConfigNotFound" -> {"load_config"}
      [] kind = "MissingInstallationID" -> {"load_config"}
      [] kind = "MissingAppID" -> {"load_config"}
      [] kind = "OwnerUndetermined" -> {"derive"}
      [] kind = "PrivateKeyNotFound" -> {"load_key"}
      [] kind = "TransportError" -> {"post", "get"}
      [] kind = "MalformedResponse" -> {"post", "get"}
      [] kind = "NoTokenInResponse" -> {"post"}
      [] kind = "MissingRequiredRepositories" -> {"get"}
      [] OTHER -> {"derive", "issue_jwt", "post", "get"}

\* C8 as stated: the steps start in the order load config, load private key,
\* issue JWT, derive required repositories, POST, GET, emit, so a missing
\* private key or application ID is reported rather than a failing owner
\* derivation.
C8_StatedOrder ==
    script = "token" =>
        /\ IsPrefix(trace, StatedOrder)
        /\ (keyFile = "missing" \/ ~Truthy(ConfigGet(gj_config, GITHUB_APP_ID)))
              => ~Reported("OwnerUndetermined")

\* C8 as amended: the steps start in the order load config (with the check
\* of the installation ID), derive required repositories, load config again
\* (with the check of the application ID), load private key, issue JWT,
\* POST, GET, emit; no step starts after a failure, so the failure reported
\* is that of the first failing step in this order (OwnerUndetermined comes
\* before MissingAppID and PrivateKeyNotFound); the GET carries the token of
\* the successful POST.
C8_CodeOrder ==
    script = "token" =>
        /\ IsPrefix(trace, CodeOrder)
        /\ Len(stderr) <= 1
        /\ stderr # <<>> => Last(trace) \in StepsOf(stderr[1].kind)
        /\ getAuth # <<>> =>
              /\ result # <<>>
              /\ data = result
              /\ result[1].type = "object"
              /\ "token" \in DOMAIN result[1].members
              /\ getAuth[1] = result[1].members["token"]

\* C8 witness: the private key is missing and the owner derivation, which
\* runs first, is the failure reported
C8_Witness ==
    /\ script = "token"
    /\ keyFile = "missing"
    /\ Reported("OwnerUndetermined")
    /\ trace = <<"load_config", "derive">>

\* generate_jwt has read the config file
GenerateJwtReadConfig ==
    /\ configFile.exists
    /\ \/ script = "jwt" /\ Len(trace) >= 1
       \/ script = "token" /\ Len(trace) >= 3

\* C9: the claim set has exactly iss = application ID, iat = now - 60 and
\* exp = now + 600, so exp - iat = 660 and iat <= now <= exp; when
\* GITHUB_APP_ID is absent or empty, generate_jwt builds no claim set and
\* fails with MissingAppID.
C9_JwtClaims ==
    /\ payload # <<>> =>
          LET p == payload[1]
              now == clock[1]
              app_id == ConfigGet(read_config(configFile.lines), GITHUB_APP_ID)
          IN  /\ DOMAIN p = {"iss", "iat", "exp"}
              /\ app_id \notin {None, <<>>}
              /\ p.iss = app_id
              /\ p.iat = now - 60
              /\ p.exp = now + 600
              /\ p.exp - p.iat = 660
              /\ p.iat <= now /\ now <= p.exp
    /\ jwt_token # <<>> => payload # <<>> /\ jwt_token[1].payload = payload[1]
    /\ (GenerateJwtReadConfig
            /\ ConfigGet(read_config(configFile.lines), GITHUB_APP_ID) \in {None, <<>>}) =>
          /\ payload = <<>>
          /\ jwt_token = <<>>
          /\ stderr = <<Report("MissingAppID", <<>>)>>
          /\ exitCode = <<1>>

\* C9 witness: a claim set was built at time 0, so iat is negative
C9_Witness ==
    /\ payload # <<>>
    /\ clock = <<0>>
    /\ payload[1].iat = -60

\* C10: when the run reaches the token exchange, every required repository
\* is owner/name with a non-empty owner and a non-empty name, and the
\* repositories of the POST body are those names, in the same order and
\* number, none of them empty.
C10_PostedNames ==
    postBody # <<>> =>
        LET R == required_repositories
            names == postBody[1].repositories
        IN  /\ Len(names) = Len(R)
            /\ \A i \in 1..Len(R) :
                  /\ Contains(R[i], "/")
                  /\ OwnerOf(R[i]) # <<>>
                  /\ NameOf(R[i]) # <<>>
                  /\ names[i] = NameOf(R[i])
                  /\ names[i] # <<>>

====
